---- MODULE Spec2Model ----
(***************************************************************************)
(* A model of Spack's CMake build-system support                           *)
(* (lib/spack/spack/build_systems/cmake.py) and of the Octave recipe       *)
(* (var/spack/repos/builtin/packages/octave/package.py).                   *)
(*                                                                         *)
(* Strings are sequences of tokens.  A token is either a single character  *)
(* the code looks at (" ", "-", the line break) or a run of other          *)
(* characters ("Ninja", "Unix Makefiles", "CodeBlocks", a path, a flag).   *)
(* Formatting and joining are concatenation of token sequences.            *)
(***************************************************************************)
EXTENDS Integers, Sequences, FiniteSets, TLC

VARIABLES
    pkg,      \* the package object handed to the argument builder
    mac,      \* platform.mac_ver()[0] is non-empty
    flags,    \* the flags dictionary handed to flags_to_build_system_args
    calls,    \* what the calls made so far returned, oldest first
    gen,      \* per node: the generator attribute of its package
    state,    \* per node: Pending, Staged, Configuring, Built, Installed,
              \*           Verified or Failed
    idx,      \* per node: the place in phases of the phase to run next
    pc,       \* per node: where its build process is
    cwd,      \* per node: the working directory of its build process
    started,  \* per node: the phases and callbacks entered, oldest first
    results,  \* per node: the outcome of each phase that ended
    tools,    \* per node: the external tools invoked, oldest first
    reason,   \* per node: why it failed
    orig_dir, \* per node: the directory its open working_dir goes back to
    request,  \* the variant values the root request for octave asks for
    graph     \* the dependency graph the solver returned for the request

argVars == <<pkg, mac, flags, calls>>

orchVars == <<gen, state, idx, pc, cwd, started, results, tools, reason, orig_dir>>

solveVars == <<request, graph>>

vars == <<argVars, orchVars, solveVars>>

----------------------------------------------------------------------------
(* Bounds *)

\* Longest generator string, in tokens ("CodeBlocks - Ninja" has five).
MaxGenLen == 5

\* Most dependency edges of the package handed to _std_args.
MaxDeps == 2

\* Most flags in one group of the flags dictionary.
MaxFlags == 1

\* Most variants a root request sets explicitly.
MaxRequested == 2

\* Most calls of std_cmake_args on one package object.
MaxCalls == 2

----------------------------------------------------------------------------
(* Strings *)

NL == "\n"

\* The tokens generator strings are built from.
GenTokens == {"Unix Makefiles", "Ninja", "CodeBlocks", " ", "-", NL}

RECURSIVE StringsUpTo(_, _)
StringsUpTo(T, n) ==
    IF n = 0 THEN {<<>>}
    ELSE LET shorter == StringsUpTo(T, n - 1)
         IN  shorter \cup {Append(s, t) : s \in {x \in shorter : Len(x) = n - 1}, t \in T}

Range(s) == {s[i] : i \in DOMAIN s}

\* sep.join(parts): the parts with sep between each two.
RECURSIVE Join(_, _)
Join(sep, parts) ==
    IF parts = <<>> THEN <<>>
    ELSE IF Len(parts) = 1 THEN parts[1]
    ELSE parts[1] \o sep \o Join(sep, Tail(parts))

\* prefix.format(value): '-DCMAKE_X={0}'.format(value)
Format(prefix, value) == <<prefix>> \o value

----------------------------------------------------------------------------
\* _primary_generator_extractor: an optional group "anything, then ' - '",
\* followed by the captured group "anything".  It is matched with re.match:
\* "anything" is greedy and never crosses a line break, and the match need
\* not reach the end of the string.

\* The place where '.' stops matching: the first line break, or the end.
LineEnd(s) ==
    LET breaks == {i \in DOMAIN s : s[i] = NL}
    IN  IF breaks = {} THEN Len(s) + 1
        ELSE CHOOSE i \in breaks : \A j \in breaks : i <= j

\* The places in the first line where ' - ' starts.
SeparatorStarts(s) ==
    {i \in 1..(LineEnd(s) - 3) : s[i] = " " /\ s[i + 1] = "-" /\ s[i + 2] = " "}

_extract_primary_generator(generator) ==
    LET seps == SeparatorStarts(generator)
        from == IF seps = {} THEN 1
                ELSE (CHOOSE i \in seps : \A j \in seps : j <= i) + 3
    IN  SubSeq(generator, from, LineEnd(generator) - 1)

----------------------------------------------------------------------------
(* CMakePackage._std_args *)

valid_primary_generators == <<(<<"Unix Makefiles">>), (<<"Ninja">>)>>

\* The legal values of the build_type variant.
build_type_values == {"Debug", "Release", "RelWithDebInfo", "MinSizeRel"}

build_type_defaulting_to_release(p) ==
    IF "build_type" \in DOMAIN p.variants
    THEN p.variants["build_type"]
    ELSE "Release"

\* pkg.spec.variants['build_type'].value, or the KeyError's default.
build_type_of(p) ==
    IF "build_type" \in DOMAIN p.variants
    THEN p.variants["build_type"]
    ELSE "RelWithDebInfo"

\* spack.util.environment: the default system search path.
system_dirs == {"/usr", "/usr/local"}

is_system_path(path) == path \in system_dirs

filter_system_paths(paths) ==
    SelectSeq(paths, LAMBDA path : ~is_system_path(path))

\* Spec.dependencies(deptype): the dependency edges with one of the types.
dependencies(p, deptype) ==
    SelectSeq(p.deps, LAMBDA d : d.deptypes \cap deptype # {})

prefix_path_deps_of_every_type(p) ==
    LET ds == dependencies(p, {"build", "link", "run"})
    IN  filter_system_paths([i \in DOMAIN ds |-> ds[i].prefix])

\* The prefixes _std_args collects for CMAKE_PREFIX_PATH.
prefix_path_deps(p) ==
    LET ds == dependencies(p, {"build", "link"})
    IN  filter_system_paths([i \in DOMAIN ds |-> ds[i].prefix])

Raise(what) == [raised |-> what, value |-> <<>>]
Return(value) == [raised |-> "", value |-> value]

_std_args(p, is_mac) ==
    LET generator == p.generator
        primary_generator == _extract_primary_generator(generator)
        build_type == build_type_of(p)
        rpaths == Join(<<";">>, [i \in DOMAIN p.rpaths |-> <<p.rpaths[i]>>])
        deps == prefix_path_deps(p)
    IN  IF primary_generator \notin Range(valid_primary_generators)
        THEN Raise("InstallError")
        ELSE Return(
              << <<"-G">>, generator,
                 Format("-DCMAKE_INSTALL_PREFIX:PATH=", <<p.prefix>>),
                 Format("-DCMAKE_BUILD_TYPE:STRING=", <<build_type>>) >>
              \o (IF primary_generator = <<"Unix Makefiles">>
                  THEN << <<"-DCMAKE_VERBOSE_MAKEFILE:BOOL=ON">> >> ELSE <<>>)
              \o (IF is_mac
                  THEN << <<"-DCMAKE_FIND_FRAMEWORK:STRING=LAST">>,
                          <<"-DCMAKE_FIND_APPBUNDLE:STRING=LAST">>,
                          <<"-DCMAKE_MACOSX_RPATH:BOOL=ON">> >>
                  ELSE <<>>)
              \o << <<"-DCMAKE_INSTALL_RPATH_USE_LINK_PATH:BOOL=FALSE">>,
                    Format("-DCMAKE_INSTALL_RPATH:STRING=",
                           IF is_mac THEN Join(<<";">>, <<rpaths, <<"@rpath">> >>)
                           ELSE rpaths),
                    Format("-DCMAKE_PREFIX_PATH:STRING=",
                           Join(<<";">>, [i \in DOMAIN deps |-> <<deps[i]>>])) >>)

\* CMakePackage.std_cmake_args
std_cmake_args(p, is_mac) ==
    LET std == _std_args(p, is_mac)
    IN  IF std.raised # "" THEN std
        ELSE Return(std.value \o
                    (IF p.has_cmake_flag_args THEN p.cmake_flag_args ELSE <<>>))

----------------------------------------------------------------------------
(* CMakePackage.flags_to_build_system_args *)

\* langs = {'C': 'c', 'CXX': 'cxx', 'Fortran': 'f'}, in the order written.
langs == << <<"C", "c">>, <<"CXX", "cxx">>, <<"Fortran", "f">> >>

\* The link-target kinds the linker flags are repeated for.
link_types_without_static == <<"EXE", "MODULE", "SHARED">>

link_types == <<"EXE", "MODULE", "SHARED", "STATIC">>

\* '-DCMAKE_{0}<what>{1}'.format(name, value)
FormatFlag(name, what, value) == <<"-DCMAKE_", name, what>> \o value

Words(fs) == Join(<<" ">>, [i \in DOMAIN fs |-> <<fs[i]>>])

\* The list flags_to_build_system_args leaves in self.cmake_flag_args.
flags_to_build_system_args(fl) ==
    LET lang_flags(i) == Words(fl[langs[i][2] \o "flags"] \o fl["cppflags"])
        lang_args ==
            [i \in DOMAIN langs |->
                IF lang_flags(i) # <<>>
                THEN << FormatFlag(langs[i][1], "_FLAGS=", lang_flags(i)) >>
                ELSE <<>>]
        ld_args ==
            IF fl["ldflags"] # <<>>
            THEN [i \in DOMAIN link_types |->
                    FormatFlag(link_types[i], "_LINKER_FLAGS=", Words(fl["ldflags"]))]
            ELSE <<>>
        libs_args ==
            IF fl["ldlibs"] # <<>>
            THEN [i \in DOMAIN langs |->
                    FormatFlag(langs[i][1], "_STANDARD_LIBRARIES=", Words(fl["ldlibs"]))]
            ELSE <<>>
    IN  lang_args[1] \o lang_args[2] \o lang_args[3] \o ld_args \o libs_args

----------------------------------------------------------------------------
(* Packages *)

\* A CMakePackage as the class declares it: generator 'Unix Makefiles', no
\* cmake_flag_args attribute yet.
DefaultPackage ==
    [generator |-> <<"Unix Makefiles">>,
     variants |-> <<>>,
     prefix |-> "/opt/pkg",
     deps |-> <<>>,
     rpaths |-> <<"/opt/pkg/lib", "/opt/pkg/lib64">>,
     has_cmake_flag_args |-> FALSE,
     cmake_flag_args |-> <<>>]

FlagNames == {"cflags", "cxxflags", "fflags", "cppflags", "ldflags", "ldlibs"}

NoFlags == [f \in FlagNames |-> <<>>]

\* Generators of each kind: the two supported ones, a secondary generator
\* in front of a supported one, an unsupported one.
SampleGenerators ==
    { <<"Unix Makefiles">>, <<"Ninja">>,
      <<"CodeBlocks", " ", "-", " ", "Ninja">>, <<"CodeBlocks">> }

\* The variants dictionary: without build_type, or with one of its values.
VariantDicts ==
    {<<>>} \cup {[v \in {"build_type"} |-> b] : b \in build_type_values}

\* Install prefixes of dependencies: a system directory and two others.
DepPrefixes == {"/usr", "/opt/a", "/opt/b"}

DepTypeSets == {{"build"}, {"link"}, {"run"}, {"build", "link"}, {"link", "run"}}

\* The dependency edges of one node: the i-th names the i-th dependency.
DepLists ==
    UNION { {ds \in [1..n -> [name : 1..n, prefix : DepPrefixes, deptypes : DepTypeSets]] :
                \A i \in 1..n : ds[i].name = i} : n \in 0..MaxDeps }

GeneratorInputs ==
    {[DefaultPackage EXCEPT !.generator = g] : g \in StringsUpTo(GenTokens, MaxGenLen)}

VariantInputs ==
    {[DefaultPackage EXCEPT !.generator = g, !.variants = v] :
        g \in SampleGenerators, v \in VariantDicts}

DependencyInputs ==
    {[DefaultPackage EXCEPT !.deps = ds] : ds \in DepLists}

----------------------------------------------------------------------------
(* The dependency graph the build orchestrator works on *)

Nodes == {"app", "cmake", "rt"}

\* Every CMakePackage has depends_on('cmake', type='build'); app also needs
\* rt, at run time only.
declared_dependencies ==
    [n \in Nodes |->
        CASE n = "app" -> << [name |-> "cmake", deptypes |-> {"build"}],
                             [name |-> "rt", deptypes |-> {"run"}] >>
          [] n = "rt" -> << [name |-> "cmake", deptypes |-> {"build"}] >>
          [] OTHER -> <<>>]

\* pkg.prefix of a node
Prefix(n) == "/opt/" \o n

\* self.stage.path of a node
StagePath(n) == "/stage/" \o n

\* The directory the build process is in when a phase is called.
OrigDir == "/cwd"

\* The package object of node n.
PackageOf(n) ==
    [generator |-> gen[n],
     variants |-> <<>>,
     prefix |-> Prefix(n),
     deps |-> [i \in DOMAIN declared_dependencies[n] |->
                 [name |-> declared_dependencies[n][i].name,
                  prefix |-> Prefix(declared_dependencies[n][i].name),
                  deptypes |-> declared_dependencies[n][i].deptypes]],
     rpaths |-> <<Prefix(n) \o "/lib", Prefix(n) \o "/lib64">>,
     has_cmake_flag_args |-> FALSE,
     cmake_flag_args |-> <<>>]

\* No request has been solved.
Unsolved == [solved |-> FALSE, variants |-> <<>>, nodes |-> {}, edges |-> {}]

SolveIdle ==
    /\ request = <<>>
    /\ graph = Unsolved

OrchIdle ==
    /\ gen = [n \in Nodes |-> <<"Unix Makefiles">>]
    /\ state = [n \in Nodes |-> "Pending"]
    /\ idx = [n \in Nodes |-> 1]
    /\ pc = [n \in Nodes |-> "next"]
    /\ cwd = [n \in Nodes |-> OrigDir]
    /\ started = [n \in Nodes |-> <<>>]
    /\ results = [n \in Nodes |-> <<>>]
    /\ tools = [n \in Nodes |-> <<>>]
    /\ reason = [n \in Nodes |-> ""]
    /\ orig_dir = [n \in Nodes |-> ""]

----------------------------------------------------------------------------
(* _std_args on its own, on every package of the three families.           *)

InitStd ==
    /\ OrchIdle
    /\ SolveIdle
    /\ pkg \in GeneratorInputs \cup VariantInputs \cup DependencyInputs
    /\ mac \in BOOLEAN
    /\ flags = NoFlags
    /\ calls = <<>>

Call_std_args ==
    /\ calls = <<>>
    /\ calls' = <<[fn |-> "_std_args", ret |-> _std_args(pkg, mac)]>>
    /\ UNCHANGED <<pkg, mac, flags, orchVars, solveVars>>

NextStd == Call_std_args

SpecStd == InitStd /\ [][NextStd]_vars

----------------------------------------------------------------------------
(* flags_to_build_system_args on its own, on every flags dictionary.       *)

FlagTokens == {"-a", "-b"}

FlagInputs == [FlagNames -> StringsUpTo(FlagTokens, MaxFlags)]

InitFlags ==
    /\ OrchIdle
    /\ SolveIdle
    /\ pkg = DefaultPackage
    /\ mac = FALSE
    /\ flags \in FlagInputs
    /\ calls = <<>>

Call_flags_to_build_system_args ==
    /\ pkg' = [pkg EXCEPT !.has_cmake_flag_args = TRUE,
                          !.cmake_flag_args = flags_to_build_system_args(flags)]
    /\ UNCHANGED <<mac, flags, calls, orchVars, solveVars>>

NextFlags == Call_flags_to_build_system_args

SpecFlags == InitFlags /\ [][NextFlags]_vars

----------------------------------------------------------------------------
(* The argument builder as a package's property: std_cmake_args read up to *)
(* MaxCalls times on one package, flags_to_build_system_args called with   *)
(* the flags of its spec before, between or after the reads.               *)

SampleFlags ==
    { NoFlags,
      [NoFlags EXCEPT !["cflags"] = <<"-a">>],
      [NoFlags EXCEPT !["ldflags"] = <<"-a">>, !["ldlibs"] = <<"-b">>] }

InitArgs ==
    /\ OrchIdle
    /\ SolveIdle
    /\ pkg \in VariantInputs
    /\ mac \in BOOLEAN
    /\ flags \in SampleFlags
    /\ calls = <<>>

Read_std_cmake_args ==
    /\ Len(calls) < MaxCalls
    /\ calls' = Append(calls, [fn |-> "std_cmake_args", ret |-> std_cmake_args(pkg, mac)])
    /\ UNCHANGED <<pkg, mac, flags, orchVars, solveVars>>

NextArgs ==
    \/ Read_std_cmake_args
    \/ Call_flags_to_build_system_args

SpecArgs == InitArgs /\ [][NextArgs]_vars

----------------------------------------------------------------------------
(* The phases of a CMakePackage, run node by node by the orchestrator *)

phases_install_before_build == <<"cmake", "install", "build">>

phases == <<"cmake", "build", "install">>

build_targets == <<>>

install_targets == <<"install">>

\* CMakePackage.build_directory: os.path.join(self.stage.path, 'spack-build')
build_directory(n) == StagePath(n) \o "/" \o "spack-build"

\* CMakePackage.root_cmakelists_dir: self.stage.source_path
root_cmakelists_dir(n) == StagePath(n) \o "/" \o "spack-src"

\* CMakePackage.cmake_args
cmake_args == <<>>

\* The options the cmake phase builds before it enters the build directory.
cmake_options(n) ==
    LET std == std_cmake_args(PackageOf(n), mac)
    IN  IF std.raised # "" THEN std
        ELSE Return(<< <<root_cmakelists_dir(n)>> >> \o std.value \o cmake_args)

\* The dependencies a node waits for before its first phase: those reached
\* by a build or link edge, Installed, or Verified when also used at run time.
DepsReady(n) ==
    LET ds == dependencies(PackageOf(n), {"build", "link"})
    IN  \A i \in DOMAIN ds :
           IF "run" \in ds[i].deptypes
           THEN state[ds[i].name] = "Verified"
           ELSE state[ds[i].name] \in {"Installed", "Verified"}

\* The phase named name is the one node n runs next.
IsNext(n, name) ==
    /\ state[n] \in {"Staged", "Configuring", "Built", "Installed"}
    /\ pc[n] = "next"
    /\ idx[n] <= Len(phases)
    /\ phases[idx[n]] = name
    /\ idx[n] = 1 => DepsReady(n)

\* The state of a node whose phase name has started.
Entered(n) == IF idx[n] = 1 THEN "Configuring" ELSE state[n]

\* The state of a node whose phase name has succeeded.
Succeeded(n, name) ==
    CASE name = "build" -> "Built"
      [] name = "install" -> "Installed"
      [] OTHER -> state[n]

\* with working_dir(dirname): remember the directory, change to dirname.
working_dir_enter(n, dirname) ==
    /\ orig_dir' = [orig_dir EXCEPT ![n] = cwd[n]]
    /\ cwd' = [cwd EXCEPT ![n] = dirname]

\* Leaving the with block, by its end or by an exception.
working_dir_exit(n) ==
    /\ cwd' = [cwd EXCEPT ![n] = orig_dir[n]]
    /\ orig_dir' = [orig_dir EXCEPT ![n] = ""]

Invocation(n, tool, args, ok) ==
    [tool |-> tool, args |-> args, cwd |-> cwd[n], ok |-> ok]

\* The node goes on after a phase and its callbacks: to the next phase, or
\* to Verified after the last.
GoOn(n) ==
    /\ idx' = [idx EXCEPT ![n] = idx[n] + 1]
    /\ pc' = [pc EXCEPT ![n] = IF idx[n] = Len(phases) THEN "done" ELSE "next"]

\* The phase name of node n ended: its result is kept; on success the
\* run_after callbacks of build and install are due, on failure the node
\* fails.
PhaseEnded(n, name, ok) ==
    /\ results' = [results EXCEPT ![n] = Append(results[n], [phase |-> name, ok |-> ok])]
    /\ IF ok
       THEN /\ state' = [state EXCEPT ![n] = Succeeded(n, name)]
            /\ reason' = reason
            /\ IF name = "cmake"
               THEN GoOn(n)
               ELSE pc' = [pc EXCEPT ![n] = "run_after"] /\ idx' = idx
       ELSE /\ state' = [state EXCEPT ![n] = "Failed"]
            /\ reason' = [reason EXCEPT ![n] = "PhaseFailed"]
            /\ pc' = [pc EXCEPT ![n] = "done"]
            /\ idx' = idx

\* The staging collaborator has fetched and extracted the node's source.
stage(n) ==
    /\ state[n] = "Pending"
    /\ state' = [state EXCEPT ![n] = "Staged"]
    /\ UNCHANGED <<solveVars, argVars, gen, idx, pc, cwd, started, results, tools, reason, orig_dir>>

cmake_unchecked(n) ==
    /\ IsNext(n, "cmake")
    /\ started' = [started EXCEPT ![n] = Append(started[n], "cmake")]
    /\ state' = [state EXCEPT ![n] = Entered(n)]
    /\ pc' = [pc EXCEPT ![n] = "cmake"]
    /\ working_dir_enter(n, build_directory(n))
    /\ UNCHANGED <<solveVars, argVars, gen, idx, results, tools, reason>>

\* CMakePackage.cmake, up to the with statement: the options are built,
\* which raises for an unsupported generator, then the build directory is
\* entered.
cmake(n) ==
    /\ IsNext(n, "cmake")
    /\ started' = [started EXCEPT ![n] = Append(started[n], "cmake")]
    /\ IF cmake_options(n).raised # ""
       THEN /\ state' = [state EXCEPT ![n] = "Failed"]
            /\ reason' = [reason EXCEPT ![n] = cmake_options(n).raised]
            /\ pc' = [pc EXCEPT ![n] = "done"]
            /\ UNCHANGED <<cwd, orig_dir>>
       ELSE /\ state' = [state EXCEPT ![n] = Entered(n)]
            /\ reason' = reason
            /\ pc' = [pc EXCEPT ![n] = "cmake"]
            /\ working_dir_enter(n, build_directory(n))
    /\ UNCHANGED <<solveVars, argVars, gen, idx, results, tools>>

\* CMakePackage.cmake, inside the with statement: cmake(*options).
run_cmake(n) ==
    /\ pc[n] = "cmake"
    /\ \E ok \in BOOLEAN :
          /\ tools' = [tools EXCEPT ![n] =
                         Append(tools[n], Invocation(n, "cmake", cmake_options(n).value, ok))]
          /\ PhaseEnded(n, "cmake", ok)
    /\ working_dir_exit(n)
    /\ UNCHANGED <<solveVars, argVars, gen, started>>

build_without_working_dir(n) ==
    /\ IsNext(n, "build")
    /\ started' = [started EXCEPT ![n] = Append(started[n], "build")]
    /\ state' = [state EXCEPT ![n] = Entered(n)]
    /\ pc' = [pc EXCEPT ![n] = "build"]
    /\ orig_dir' = [orig_dir EXCEPT ![n] = cwd[n]]
    /\ UNCHANGED <<solveVars, argVars, gen, idx, results, tools, reason, cwd>>

\* CMakePackage.build, up to the with statement.
build(n) ==
    /\ IsNext(n, "build")
    /\ started' = [started EXCEPT ![n] = Append(started[n], "build")]
    /\ state' = [state EXCEPT ![n] = Entered(n)]
    /\ pc' = [pc EXCEPT ![n] = "build"]
    /\ working_dir_enter(n, build_directory(n))
    /\ UNCHANGED <<solveVars, argVars, gen, idx, results, tools, reason>>

\* The body of build and install: make for 'Unix Makefiles', ninja for
\* 'Ninja', nothing for any other generator string.
make_or_ninja(n, name, targets) ==
    /\ \E ok \in BOOLEAN :
          IF gen[n] = <<"Unix Makefiles">>
          THEN /\ tools' = [tools EXCEPT ![n] =
                              Append(tools[n], Invocation(n, "make", targets, ok))]
               /\ PhaseEnded(n, name, ok)
          ELSE IF gen[n] = <<"Ninja">>
          THEN /\ tools' = [tools EXCEPT ![n] =
                              Append(tools[n], Invocation(n, "ninja", targets, ok))]
               /\ PhaseEnded(n, name, ok)
          ELSE /\ tools' = tools
               /\ PhaseEnded(n, name, TRUE)
    /\ working_dir_exit(n)

\* CMakePackage.build, inside the with statement.
run_build(n) ==
    /\ pc[n] = "build"
    /\ make_or_ninja(n, "build", build_targets)
    /\ UNCHANGED <<solveVars, argVars, gen, started>>

\* CMakePackage.install, up to the with statement.
install(n) ==
    /\ IsNext(n, "install")
    /\ started' = [started EXCEPT ![n] = Append(started[n], "install")]
    /\ state' = [state EXCEPT ![n] = Entered(n)]
    /\ pc' = [pc EXCEPT ![n] = "install"]
    /\ working_dir_enter(n, build_directory(n))
    /\ UNCHANGED <<solveVars, argVars, gen, idx, results, tools, reason>>

\* CMakePackage.install, inside the with statement.
run_install(n) ==
    /\ pc[n] = "install"
    /\ make_or_ninja(n, "install", install_targets)
    /\ UNCHANGED <<solveVars, argVars, gen, started>>

\* run_after('build') when no build-time tests were asked for.
skip_check(n) ==
    /\ pc[n] = "run_after"
    /\ phases[idx[n]] = "build"
    /\ GoOn(n)
    /\ UNCHANGED <<solveVars, argVars, gen, state, cwd, started, results, tools, reason, orig_dir>>

\* CMakePackage.check, up to the with statement.
check(n) ==
    /\ pc[n] = "run_after"
    /\ phases[idx[n]] = "build"
    /\ started' = [started EXCEPT ![n] = Append(started[n], "check")]
    /\ pc' = [pc EXCEPT ![n] = "check"]
    /\ working_dir_enter(n, build_directory(n))
    /\ UNCHANGED <<solveVars, argVars, gen, state, idx, results, tools, reason>>

\* The invocations of check for the targets the build files have: 'test'
\* then 'check', stopping at the first that fails.
CheckInvocations(n, tool, existing, ok) ==
    LET wanted == SelectSeq(<<"test", "check">>, LAMBDA t : t \in existing)
    IN  IF ok \/ wanted = <<>>
        THEN [i \in DOMAIN wanted |-> Invocation(n, tool, <<wanted[i]>>, TRUE)]
        ELSE << Invocation(n, tool, <<wanted[1]>>, FALSE) >>

\* CMakePackage.check, inside the with statement.  A failed test is kept
\* in the results and does not fail the node.
run_check(n) ==
    /\ pc[n] = "check"
    /\ \E existing \in {{}, {"test", "check"}}, ok \in BOOLEAN :
          /\ tools' = [tools EXCEPT ![n] =
                tools[n] \o
                (IF gen[n] = <<"Unix Makefiles">> THEN CheckInvocations(n, "make", existing, ok)
                 ELSE IF gen[n] = <<"Ninja">> THEN CheckInvocations(n, "ninja", existing, ok)
                 ELSE <<>>)]
          /\ results' = [results EXCEPT ![n] =
                Append(results[n], [phase |-> "check", ok |-> ok \/ existing = {}
                                       \/ gen[n] \notin {<<"Unix Makefiles">>, <<"Ninja">>}])]
    /\ working_dir_exit(n)
    /\ GoOn(n)
    /\ UNCHANGED <<solveVars, argVars, gen, state, started, reason>>

\* run_after('install'): PackageBase.sanity_check_prefix.
sanity_check_prefix(n) ==
    /\ pc[n] = "run_after"
    /\ phases[idx[n]] = "install"
    /\ started' = [started EXCEPT ![n] = Append(started[n], "sanity_check_prefix")]
    /\ \E ok \in BOOLEAN :
          /\ results' = [results EXCEPT ![n] =
                Append(results[n], [phase |-> "sanity_check_prefix", ok |-> ok])]
          /\ IF ok
             THEN /\ GoOn(n)
                  /\ state' = [state EXCEPT ![n] =
                                 IF idx[n] = Len(phases) THEN "Verified" ELSE state[n]]
                  /\ reason' = reason
             ELSE /\ state' = [state EXCEPT ![n] = "Failed"]
                  /\ reason' = [reason EXCEPT ![n] = "InstallError"]
                  /\ pc' = [pc EXCEPT ![n] = "done"]
                  /\ idx' = idx
    /\ UNCHANGED <<solveVars, argVars, gen, cwd, tools, orig_dir>>

\* A node that has not started fails when a dependency it waits for failed.
dependency_failed(n) ==
    /\ state[n] \in {"Pending", "Staged"}
    /\ LET ds == dependencies(PackageOf(n), {"build", "link"})
       IN  \E i \in DOMAIN ds : state[ds[i].name] = "Failed"
    /\ state' = [state EXCEPT ![n] = "Failed"]
    /\ reason' = [reason EXCEPT ![n] = "DependencyFailed"]
    /\ pc' = [pc EXCEPT ![n] = "done"]
    /\ UNCHANGED <<solveVars, argVars, gen, idx, cwd, started, results, tools, orig_dir>>

\* A node that has not started is cancelled.
cancel(n) ==
    /\ state[n] \in {"Pending", "Staged"}
    /\ state' = [state EXCEPT ![n] = "Failed"]
    /\ reason' = [reason EXCEPT ![n] = "Cancelled"]
    /\ pc' = [pc EXCEPT ![n] = "done"]
    /\ UNCHANGED <<solveVars, argVars, gen, idx, cwd, started, results, tools, orig_dir>>

Init ==
    /\ pkg = DefaultPackage
    /\ mac = FALSE
    /\ flags = NoFlags
    /\ calls = <<>>
    /\ gen \in [Nodes -> SampleGenerators]
    /\ state = [n \in Nodes |-> "Pending"]
    /\ idx = [n \in Nodes |-> 1]
    /\ pc = [n \in Nodes |-> "next"]
    /\ cwd = [n \in Nodes |-> OrigDir]
    /\ started = [n \in Nodes |-> <<>>]
    /\ results = [n \in Nodes |-> <<>>]
    /\ tools = [n \in Nodes |-> <<>>]
    /\ reason = [n \in Nodes |-> ""]
    /\ orig_dir = [n \in Nodes |-> ""]
    /\ request = <<>>
    /\ graph = Unsolved

Next ==
    \E n \in Nodes :
        \/ stage(n)
        \/ cmake(n)
        \/ run_cmake(n)
        \/ build(n)
        \/ run_build(n)
        \/ check(n)
        \/ skip_check(n)
        \/ run_check(n)
        \/ install(n)
        \/ run_install(n)
        \/ sanity_check_prefix(n)
        \/ dependency_failed(n)
        \/ cancel(n)

Spec == Init /\ [][Next]_vars

----------------------------------------------------------------------------
(* The Octave recipe *)

Octave_variants ==
    [readline |-> TRUE, arpack |-> FALSE, curl |-> FALSE, fftw |-> FALSE,
     fltk |-> FALSE, fontconfig |-> FALSE, freetype |-> FALSE, glpk |-> FALSE,
     gl2ps |-> FALSE, gnuplot |-> FALSE, magick |-> FALSE, hdf5 |-> FALSE,
     jdk |-> FALSE, llvm |-> FALSE, opengl |-> FALSE, qhull |-> FALSE,
     qrupdate |-> FALSE, qscintilla |-> FALSE, qt |-> FALSE,
     suitesparse |-> FALSE, zlib |-> FALSE]

\* depends_on(spec): on every platform, whatever the variants.
Always(spec, type) ==
    [spec |-> spec, kind |-> "always", when |-> "", type |-> type]

\* depends_on(spec, when=sys.platform == 'darwin')
OnDarwin(spec, type) ==
    [spec |-> spec, kind |-> "platform", when |-> "darwin", type |-> type]

\* depends_on(spec, when='+variant')
When(spec, variant) ==
    [spec |-> spec, kind |-> "variant", when |-> variant, type |-> {"build", "link"}]

Octave_required_and_zlib ==
    << Always("blas", {"build", "link"}),
       Always("lapack", {"build", "link"}),
       OnDarwin("sed", {"build"}),
       Always("pcre", {"build", "link"}),
       Always("pkgconfig", {"build"}),
       Always("zlib", {"build", "link"}) >>

Octave_required ==
    << Always("blas", {"build", "link"}),
       Always("lapack", {"build", "link"}),
       OnDarwin("sed", {"build"}),
       Always("pcre", {"build", "link"}),
       Always("pkgconfig", {"build"}) >>

Octave_optional ==
    << When("readline", "readline"),
       When("arpack-ng", "arpack"),
       When("curl", "curl"),
       When("fftw", "fftw"),
       When("fltk", "fltk"),
       When("fontconfig", "fontconfig"),
       When("freetype", "freetype"),
       When("glpk", "glpk"),
       When("gl2ps", "gl2ps"),
       When("gnuplot", "gnuplot"),
       When("image-magick", "magick"),
       When("hdf5", "hdf5"),
       When("java", "jdk"),
       When("llvm", "llvm"),
       When("qhull", "qhull"),
       When("qrupdate", "qrupdate"),
       When("qt+opengl", "qt"),
       When("suite-sparse", "suitesparse"),
       When("zlib", "zlib") >>

Octave_depends_on == Octave_required \o Octave_optional

----------------------------------------------------------------------------
(* Solving a root request for octave.  The recipes of octave's              *)
(* dependencies are not part of the model: they are leaves of the graph.   *)

\* Variant values: what the request asks for, else the declared default.
final_variants(declared, asked) ==
    [v \in DOMAIN declared |-> IF v \in DOMAIN asked THEN asked[v] ELSE declared[v]]

\* A dependency's guard, against the depender's final variants.
guard_holds(d, variants, darwin) ==
    CASE d.kind = "always" -> TRUE
      [] d.kind = "platform" -> darwin
      [] OTHER -> variants[d.when]

solve(asked, darwin) ==
    LET variants == final_variants(Octave_variants, asked)
        kept == SelectSeq(Octave_depends_on, LAMBDA d : guard_holds(d, variants, darwin))
    IN  [solved |-> TRUE,
         variants |-> variants,
         nodes |-> {"octave"} \cup {kept[i].spec : i \in DOMAIN kept},
         edges |-> {[from |-> "octave", to |-> kept[i].spec, kind |-> kept[i].kind,
                     when |-> kept[i].when, type |-> kept[i].type] : i \in DOMAIN kept}]

\* The requests that set at most MaxRequested variants.
Requests ==
    UNION { [vs -> BOOLEAN] :
              vs \in {x \in SUBSET DOMAIN Octave_variants : Cardinality(x) <= MaxRequested} }

InitSolve ==
    /\ pkg = DefaultPackage
    /\ mac \in BOOLEAN
    /\ flags = NoFlags
    /\ calls = <<>>
    /\ OrchIdle
    /\ request \in Requests
    /\ graph = Unsolved

Solve ==
    /\ ~graph.solved
    /\ graph' = solve(request, mac)
    /\ UNCHANGED <<argVars, orchVars, request>>

NextSolve == Solve

SpecSolve == InitSolve /\ [][NextSolve]_vars

----------------------------------------------------------------------------
(* Claims about the argument builder *)

\* The calls of fn made so far.
CallsOf(fn) == {i \in DOMAIN calls : calls[i].fn = fn}

\* How many entries of the list args equal e.
Count(args, e) == Cardinality({k \in DOMAIN args : args[k] = e})

\* The entries of args that start with the token t.
Starting(args, t) == {k \in DOMAIN args : args[k] # <<>> /\ args[k][1] = t}

\* g is 'Unix Makefiles' or 'Ninja', or ends with ' - ' and one of them.
HasLegalPrimary(g) ==
    \E p \in {<<"Unix Makefiles">>, <<"Ninja">>} :
        \/ g = p
        \/ /\ Len(g) >= Len(p) + 3
           /\ SubSeq(g, Len(g) - Len(p) - 2, Len(g)) = <<" ", "-", " ">> \o p

\* C1: _std_args raises InstallError exactly when the generator string is
\* not a legal primary generator ('Unix Makefiles', 'Ninja') optionally
\* preceded by '<secondary> - '; when it does not raise, the argument list
\* has exactly one '-G' entry, followed by the full generator string.
C1_GeneratorChecked ==
    \A i \in CallsOf("_std_args") :
        LET r == calls[i].ret
        IN  /\ (r.raised = "InstallError") <=> ~HasLegalPrimary(pkg.generator)
            /\ r.raised = "" =>
                 /\ Count(r.value, <<"-G">>) = 1
                 /\ \E k \in 1..(Len(r.value) - 1) :
                       r.value[k] = <<"-G">> /\ r.value[k + 1] = pkg.generator

\* C3: when _std_args accepts the generator, its list has exactly one
\* install-prefix argument and exactly one build-type argument, whose value
\* is one of Debug, Release, RelWithDebInfo, MinSizeRel, and RelWithDebInfo
\* when the spec carries no build_type variant.
C3_PrefixAndBuildType ==
    \A i \in CallsOf("_std_args") :
        LET r == calls[i].ret
            prefixes == Starting(r.value, "-DCMAKE_INSTALL_PREFIX:PATH=")
            types == Starting(r.value, "-DCMAKE_BUILD_TYPE:STRING=")
        IN  r.raised = "" =>
              /\ Cardinality(prefixes) = 1
              /\ \A k \in prefixes : Tail(r.value[k]) = <<pkg.prefix>>
              /\ Cardinality(types) = 1
              /\ \A k \in types :
                    /\ Len(r.value[k]) = 2
                    /\ r.value[k][2] \in {"Debug", "Release", "RelWithDebInfo", "MinSizeRel"}
                    /\ "build_type" \notin DOMAIN pkg.variants
                          => r.value[k][2] = "RelWithDebInfo"
                    /\ "build_type" \in DOMAIN pkg.variants
                          => r.value[k][2] = pkg.variants["build_type"]

\* C3's case: a generator with a secondary part was accepted for a spec
\* without a build_type variant.
C3_Witness ==
    /\ CallsOf("_std_args") # {}
    /\ calls[1].ret.raised = ""
    /\ pkg.generator = <<"CodeBlocks", " ", "-", " ", "Ninja">>
    /\ "build_type" \notin DOMAIN pkg.variants

\* The paths listed in a CMAKE_PREFIX_PATH argument.
ListedPaths(arg) == SelectSeq(Tail(arg), LAMBDA t : t # ";")

\* C4: the CMAKE_PREFIX_PATH argument lists the prefixes of exactly the
\* build- and link-type dependencies that are not system directories, and
\* no prefix twice.
C4_PrefixPathDeduplicated ==
    \A i \in CallsOf("_std_args") :
        LET r == calls[i].ret
            wanted == {pkg.deps[d].prefix :
                          d \in {e \in DOMAIN pkg.deps :
                                   pkg.deps[e].deptypes \cap {"build", "link"} # {}}}
                      \ system_dirs
        IN  r.raised = "" =>
              \A k \in Starting(r.value, "-DCMAKE_PREFIX_PATH:STRING=") :
                 LET listed == ListedPaths(r.value[k])
                 IN  /\ Range(listed) = wanted
                     /\ \A a, b \in DOMAIN listed : listed[a] = listed[b] => a = b

\* The assignments of cmake_flag_args of the form -DCMAKE_<name><what>...
Assignments(what) ==
    {k \in DOMAIN pkg.cmake_flag_args : pkg.cmake_flag_args[k][3] = what}

\* Exactly one assignment -DCMAKE_<name><what><value> for each name, and
\* no other assignment of that form.
OnePerName(names, what, value) ==
    /\ Cardinality(Assignments(what)) = Cardinality(names)
    /\ \A n \in names :
          Count(pkg.cmake_flag_args, <<"-DCMAKE_", n, what>> \o value) = 1

\* C5, as amended: flags_to_build_system_args turns non-empty ldflags into
\* one CMAKE_<kind>_LINKER_FLAGS assignment for each of the four kinds
\* EXE, MODULE, SHARED, STATIC, and non-empty ldlibs into one
\* CMAKE_<lang>_STANDARD_LIBRARIES assignment for each of the three
\* languages C, CXX, Fortran; an empty group gives no assignment.
C5_LinkAssignments ==
    pkg.has_cmake_flag_args =>
      /\ IF flags["ldflags"] # <<>>
         THEN OnePerName({"EXE", "MODULE", "SHARED", "STATIC"}, "_LINKER_FLAGS=",
                         Words(flags["ldflags"]))
         ELSE Assignments("_LINKER_FLAGS=") = {}
      /\ IF flags["ldlibs"] # <<>>
         THEN OnePerName({"C", "CXX", "Fortran"}, "_STANDARD_LIBRARIES=",
                         Words(flags["ldlibs"]))
         ELSE Assignments("_STANDARD_LIBRARIES=") = {}

\* C5's case: both groups were translated.
C5_Witness ==
    /\ pkg.has_cmake_flag_args
    /\ flags["ldflags"] # <<>>
    /\ flags["ldlibs"] # <<>>

\* C5 as stated: ldflags and ldlibs each give one assignment per
\* link-target kind, for exactly the four kinds.
C5_OnePerLinkKind ==
    pkg.has_cmake_flag_args =>
      /\ flags["ldflags"] # <<>> =>
           \A kind \in {"EXE", "MODULE", "SHARED", "STATIC"} :
              Cardinality({k \in Assignments("_LINKER_FLAGS=") :
                              pkg.cmake_flag_args[k][2] = kind}) = 1
      /\ flags["ldlibs"] # <<>> =>
           \A kind \in {"EXE", "MODULE", "SHARED", "STATIC"} :
              Cardinality({k \in Assignments("_STANDARD_LIBRARIES=") :
                              pkg.cmake_flag_args[k][2] = kind}) = 1
      /\ flags["ldflags"] = <<>> => Assignments("_LINKER_FLAGS=") = {}
      /\ flags["ldlibs"] = <<>> => Assignments("_STANDARD_LIBRARIES=") = {}

\* C6: on one package, with the same spec and platform, every read of
\* std_cmake_args returns the same list, whatever ran before or between.
C6_StdCmakeArgsPure ==
    \A i, j \in CallsOf("std_cmake_args") : calls[i].ret = calls[j].ret

----------------------------------------------------------------------------
(* Claims about the phases *)

\* _std_args rejects the generator of node n.
Rejected(n) == _std_args(PackageOf(n), mac).raised = "InstallError"

\* The phase name of node n has ended with success.
Passed(n, name) == \E i \in DOMAIN results[n] : results[n][i] = [phase |-> name, ok |-> TRUE]

InSeq(x, seq) == \E i \in DOMAIN seq : seq[i] = x

\* C2, as amended: when _std_args rejects a node's generator, the node
\* fails with InstallError inside its cmake phase, the only one that starts,
\* before the build directory is entered: no external tool is invoked, no
\* phase ends and build, install and check never start.
C2_RejectedBeforeAnyTool ==
    \A n \in Nodes :
        Rejected(n) =>
          /\ tools[n] = <<>>
          /\ results[n] = <<>>
          /\ cwd[n] = OrigDir
          /\ started[n] \in {<<>>, <<"cmake">>}
          /\ started[n] = <<"cmake">> => state[n] = "Failed" /\ reason[n] = "InstallError"

\* C2's case: a node with a rejected generator has failed in its cmake phase.
C2_Witness ==
    \E n \in Nodes :
        /\ Rejected(n)
        /\ started[n] = <<"cmake">>
        /\ state[n] = "Failed"

\* C2 as stated: for a node with an unsupported generator no phase starts,
\* the cmake phase included, and no external tool is invoked.
C2_NoPhaseStarts ==
    \A n \in Nodes : Rejected(n) => started[n] = <<>> /\ tools[n] = <<>>

\* C7: when node A has entered Configuring, every node B that A depends on
\* with type build or link has reached Installed before, and so has the
\* owner of every prefix in the CMAKE_PREFIX_PATH A's cmake was called with.
C7_DependenciesInstalledFirst ==
    \A a \in Nodes :
        started[a] # <<>> =>
          /\ \A i \in DOMAIN declared_dependencies[a] :
                declared_dependencies[a][i].deptypes \cap {"build", "link"} # {}
                   => Passed(declared_dependencies[a][i].name, "install")
          /\ \A t \in DOMAIN tools[a] :
                tools[a][t].tool = "cmake" =>
                  \A k \in Starting(tools[a][t].args, "-DCMAKE_PREFIX_PATH:STRING=") :
                     \A path \in Range(ListedPaths(tools[a][t].args[k])) :
                        \E b \in Nodes : Prefix(b) = path /\ Passed(b, "install")

\* C7's case: app, which depends on cmake, has called cmake with a
\* CMAKE_PREFIX_PATH that lists a prefix.
C7_Witness ==
    \E t \in DOMAIN tools["app"] :
        /\ tools["app"][t].tool = "cmake"
        /\ \E k \in Starting(tools["app"][t].args, "-DCMAKE_PREFIX_PATH:STRING=") :
              ListedPaths(tools["app"][t].args[k]) # <<>>

\* C8: the phases of a node start in the order cmake, build, install; build
\* (and its check) only after cmake succeeded, install only after build
\* succeeded, the sanity check only after install succeeded.
C8_PhasesInOrder ==
    \A n \in Nodes :
        LET main == SelectSeq(started[n], LAMBDA p : p \in {"cmake", "build", "install"})
        IN  /\ main = SubSeq(<<"cmake", "build", "install">>, 1, Len(main))
            /\ InSeq("build", started[n]) => Passed(n, "cmake")
            /\ InSeq("check", started[n]) => Passed(n, "build")
            /\ InSeq("install", started[n]) => Passed(n, "build")
            /\ InSeq("sanity_check_prefix", started[n]) => Passed(n, "install")

\* C8's case: a node has gone through cmake, build, install and the sanity
\* check.
C8_Witness ==
    \E n \in Nodes :
        /\ InSeq("install", started[n])
        /\ InSeq("sanity_check_prefix", started[n])
        /\ state[n] = "Verified"

\* C9: every external tool of a node runs in that node's own build
\* directory, which is the working directory for as long as the node is
\* inside cmake, build, install or check, and the directory that was
\* current before is current again whenever the node is outside them,
\* after a failure too.
C9_WorkingDirectoryScoped ==
    \A n \in Nodes :
        /\ \A t \in DOMAIN tools[n] :
              tools[n][t].cwd = "/stage/" \o n \o "/spack-build"
        /\ IF pc[n] \in {"cmake", "build", "install", "check"}
           THEN cwd[n] = "/stage/" \o n \o "/spack-build"
           ELSE cwd[n] = "/cwd"

\* C9's case: a node has left a phase whose tool failed.
C9_Witness ==
    \E n \in Nodes :
        /\ state[n] = "Failed"
        /\ reason[n] = "PhaseFailed"
        /\ \E t \in DOMAIN tools[n] : ~tools[n][t].ok

\* The build tool that goes with the primary generator of node n.
BuildToolOf(n) ==
    IF _extract_primary_generator(gen[n]) = <<"Unix Makefiles">> THEN "make" ELSE "ninja"

\* The positions in the tool log of node n where make or ninja was invoked
\* with exactly the given targets.
BuildToolRuns(n, targets) ==
    {t \in DOMAIN tools[n] : tools[n][t].tool \in {"make", "ninja"} /\ tools[n][t].args = targets}

\* C11: for every generator string _std_args accepts, the '<secondary> -
\* <primary>' form included, a build phase that has ended with success has
\* invoked exactly one build tool with the build targets, and an install
\* phase that has ended with success exactly one with the install targets:
\* make for the primary generator 'Unix Makefiles', ninja for 'Ninja'.
C11_BuildToolInvoked ==
    \A n \in Nodes :
        ~Rejected(n) =>
          /\ Passed(n, "build") =>
                /\ Cardinality(BuildToolRuns(n, build_targets)) = 1
                /\ \A t \in BuildToolRuns(n, build_targets) : tools[n][t].tool = BuildToolOf(n)
          /\ Passed(n, "install") =>
                /\ Cardinality(BuildToolRuns(n, install_targets)) = 1
                /\ \A t \in BuildToolRuns(n, install_targets) : tools[n][t].tool = BuildToolOf(n)

----------------------------------------------------------------------------
(* Claims about solving *)

\* What the Octave recipe declares: the dependency each feature brings in.
OctaveOptional ==
    [readline |-> "readline", arpack |-> "arpack-ng", curl |-> "curl",
     fftw |-> "fftw", fltk |-> "fltk", fontconfig |-> "fontconfig",
     freetype |-> "freetype", glpk |-> "glpk", gl2ps |-> "gl2ps",
     gnuplot |-> "gnuplot", magick |-> "image-magick", hdf5 |-> "hdf5",
     jdk |-> "java", llvm |-> "llvm", qhull |-> "qhull",
     qrupdate |-> "qrupdate", qt |-> "qt+opengl",
     suitesparse |-> "suite-sparse", zlib |-> "zlib"]

\* C10: for every dependency Q that octave declares with when='+feature',
\* a request with feature=True has Q in the solved graph and a request with
\* feature=False has not; Q is in the graph exactly when the final value of
\* feature is true, and the guard of every guarded edge of the graph holds
\* for octave's final variants.
C10_GuardedDependencies ==
    graph.solved =>
      /\ \A f \in DOMAIN OctaveOptional :
            /\ f \in DOMAIN request /\ request[f] => OctaveOptional[f] \in graph.nodes
            /\ f \in DOMAIN request /\ ~request[f] => OctaveOptional[f] \notin graph.nodes
            /\ graph.variants[f] <=> OctaveOptional[f] \in graph.nodes
            /\ graph.variants[f] <=>
                 \E e \in graph.edges : e.from = "octave" /\ e.to = OctaveOptional[f]
      /\ \A e \in graph.edges :
            /\ e.kind = "variant" => graph.variants[e.when]
            /\ e.kind = "platform" => mac

\* C10's case: a request that turns one feature on and a default-on one
\* off has been solved.
C10_Witness ==
    /\ graph.solved
    /\ "curl" \in DOMAIN request /\ request["curl"]
    /\ "readline" \in DOMAIN request /\ ~request["readline"]
    /\ "curl" \in graph.nodes

====
